---- MODULE Spec2Model ----
(***************************************************************************)
(* Model of counting-words/main.py: the batch script that enumerates the   *)
(* Doctrine and Covenants section files, asks a remote completion service  *)
(* for a word count per section, parses the reply and writes output.csv.   *)
(*                                                                         *)
(* Text is modelled as a sequence of tokens.  A token is one character,    *)
(* except the two labels "WORD_COUNT:" and "CONFIDENCE:" (the label name   *)
(* followed by its colon) and the extension ".md".                         *)
(***************************************************************************)
EXTENDS Integers, Sequences, FiniteSets, TLC

VARIABLES
    directory,      \* names present in the "Doctrine and Covenants" directory
    prior,          \* output.csv as it was before the run
    output,         \* output.csv now
    pc,             \* position of main()
    dc_files,       \* main: dc_files
    idx,            \* main: idx of the for loop (1-based)
    section_num,    \* main: section_num
    response,       \* outcome of the remote call for the current document
    word_count,     \* word_count (count_savior_words local, then main local)
    confidence,     \* confidence (count_savior_words local, then main local)
    results,        \* main: results
    requests,       \* number of remote calls issued, per document index
    ppc,            \* position of the parsing loop of count_savior_words
    nlines,         \* lines of response_text consumed by the parsing loop
    textEnd,        \* how the text consumed so far ends (strip() has run)
    track,          \* observer: the label the observations below are about
    target,         \* observer: the integer watched for in well-formed lines
    nLabel,         \* consumed lines that contain the tracked label (2 = several)
    lastVal,        \* value carried by the latest line with the tracked label
    sawTarget,      \* a consumed line was the well-formed line of target
    targetStands,   \* ... and no later tracked line parsed to another integer
    row             \* the row main() builds from the parsed pair

vars == <<directory, prior, output, pc, dc_files, idx, section_num, response,
          word_count, confidence, results, requests,
          ppc, nlines, textEnd, track, target, nLabel, lastVal, sawTarget,
          targetStands, row>>

mainVars == <<directory, prior, output, pc, dc_files, idx, section_num,
              response, results, requests>>

parseVars == <<ppc, nlines, textEnd, track, target, nLabel, lastVal,
               sawTarget, targetStands, row>>

(***************************************************************************)
(* Bounds of the model.                                                    *)
(***************************************************************************)
MaxFiles == 2
MaxReplyLines == 2
MaxLineLen == 3
MaxLines == 2

(***************************************************************************)
(* Python values: None, an int, or the str 'ERROR'.                        *)
(***************************************************************************)
None == [kind |-> "None", n |-> 0]

IntVal(n) == [kind |-> "int", n |-> n]

ERROR == [kind |-> "str", n |-> 0]

(***************************************************************************)
(* Characters.                                                             *)
(***************************************************************************)
DigitVal ==
    ("0" :> 0) @@ ("1" :> 1) @@ ("2" :> 2) @@ ("3" :> 3) @@ ("4" :> 4) @@
    ("5" :> 5) @@ ("6" :> 6) @@ ("7" :> 7) @@ ("8" :> 8) @@ ("9" :> 9)

IsDigit(c) == c \in DOMAIN DigitVal

Whitespace == {" ", "\n"}

\* Code points of the characters file names are made of (".md" starts with ".").
CodePoint ==
    (".md" :> 46) @@ ("0" :> 48) @@ ("1" :> 49) @@ ("2" :> 50) @@ ("4" :> 52) @@
    ("c" :> 99) @@ ("d" :> 100) @@ ("r" :> 114) @@ ("x" :> 120)

(***************************************************************************)
(* str.strip(): leading and trailing whitespace removed.                   *)
(***************************************************************************)
RECURSIVE LStrip(_)
LStrip(s) ==
    IF Len(s) > 0 /\ Head(s) \in Whitespace THEN LStrip(Tail(s)) ELSE s

RECURSIVE RStrip(_)
RStrip(s) ==
    IF Len(s) > 0 /\ s[Len(s)] \in Whitespace
    THEN RStrip(SubSeq(s, 1, Len(s) - 1))
    ELSE s

Strip(s) == RStrip(LStrip(s))

(***************************************************************************)
(* int(str): optional surrounding whitespace, an optional sign, then one   *)
(* or more decimal digits; anything else raises ValueError (None here).    *)
(* The texts of the model hold no underscore and no non-ASCII digit, which *)
(* int() would also accept.                                                *)
(***************************************************************************)
RECURSIVE DecVal(_)
DecVal(s) ==
    IF Len(s) = 0 THEN 0
    ELSE 10 * DecVal(SubSeq(s, 1, Len(s) - 1)) + DigitVal[s[Len(s)]]

PyInt(s) ==
    LET t == Strip(s)
        signed == Len(t) > 0 /\ Head(t) \in {"-", "+"}
        body == IF signed THEN Tail(t) ELSE t
    IN  IF Len(body) = 0 \/ \E i \in 1..Len(body) : ~IsDigit(body[i])
        THEN None
        ELSE IF signed /\ Head(t) = "-"
             THEN IntVal(0 - DecVal(body))
             ELSE IntVal(DecVal(body))

(***************************************************************************)
(* str.split(sep) on a token sequence.                                     *)
(***************************************************************************)
RECURSIVE SplitOn(_, _)
SplitOn(s, sep) ==
    IF \A i \in 1..Len(s) : s[i] # sep THEN <<s>>
    ELSE LET k == CHOOSE i \in 1..Len(s) :
                      s[i] = sep /\ \A j \in 1..(i - 1) : s[j] # sep
         IN  <<SubSeq(s, 1, k - 1)>> \o SplitOn(SubSeq(s, k + 1, Len(s)), sep)

\* The sequences over S of length at most n.
RECURSIVE SeqsUpTo(_, _)
SeqsUpTo(S, n) ==
    IF n = 0 THEN {<<>>}
    ELSE LET shorter == SeqsUpTo(S, n - 1)
         IN  shorter \cup {Append(s, x) : s \in shorter, x \in S}

\* A label token is the label name followed by ':'.
Labels == {"WORD_COUNT:", "CONFIDENCE:"}

LabelName(l) == IF l = "WORD_COUNT:" THEN "WORD_COUNT" ELSE "CONFIDENCE"

RECURSIVE Chars(_)
Chars(line) ==
    IF Len(line) = 0 THEN <<>>
    ELSE IF Head(line) \in Labels
         THEN <<LabelName(Head(line)), ":">> \o Chars(Tail(line))
         ELSE <<Head(line)>> \o Chars(Tail(line))

\* 'WORD_COUNT:' in line
Contains(line, label) == \E i \in 1..Len(line) : line[i] = label

\* int(line.split(':')[1].strip()), None standing for the swallowed exception
FieldInt(line) ==
    LET parts == SplitOn(Chars(line), ":")
    IN  IF Len(parts) < 2 THEN None ELSE PyInt(Strip(parts[2]))

(***************************************************************************)
(* count_savior_words: the parsing of the reply (lines 58-76).             *)
(***************************************************************************)
\* Faulty variant: the first line with the label decides, later ones are ignored.
ParseLineWC_FirstWins(wc, line) ==
    IF Contains(line, "WORD_COUNT:") /\ wc = None
    THEN FieldInt(line)
    ELSE wc

\* Lines 65-69: a line with the label replaces word_count when its field
\* parses; the swallowed exception leaves word_count as it was.
ParseLineWC(wc, line) ==
    IF Contains(line, "WORD_COUNT:")
    THEN LET v == FieldInt(line) IN IF v # None THEN v ELSE wc
    ELSE wc

\* Faulty variant: a field that does not parse resets confidence to None.
ParseLineCF_ResetOnFailure(cf, line) ==
    IF Contains(line, "CONFIDENCE:") THEN FieldInt(line) ELSE cf

\* Lines 70-74: the same for confidence.
ParseLineCF(cf, line) ==
    IF Contains(line, "CONFIDENCE:")
    THEN LET v == FieldInt(line) IN IF v # None THEN v ELSE cf
    ELSE cf

\* Lines 61-76: the loop over the lines, from (None, None).
RECURSIVE ParseLines(_, _, _)
ParseLines(lines, wc, cf) ==
    IF Len(lines) = 0 THEN <<wc, cf>>
    ELSE ParseLines(Tail(lines), ParseLineWC(wc, Head(lines)),
                    ParseLineCF(cf, Head(lines)))

\* Lines 58-76: response_text = content.strip(), split on '\n', parsed.
ParseReply(content) == ParseLines(SplitOn(Strip(content), "\n"), None, None)

\* Faulty variant: the handler reports a count of zero.
OnException_Zero == <<IntVal(0), IntVal(0)>>

\* Lines 78-80: the handler's return value.
OnException == <<None, None>>

\* Faulty variant: the handler sends the request again.
AfterException_Retry == "call"

\* Where main() continues once the handler of lines 78-80 has run.
AfterException == "returned"

(***************************************************************************)
(* main: the row built from the parsed pair (lines 107-120).               *)
(***************************************************************************)
\* Python truth of an int-or-None value.
Truthy(v) == v.kind = "int" /\ v.n # 0

\* Faulty variant: confidence is recorded as parsed, without the default.
RowFor_NoDefault(section, wc, cf) ==
    IF wc # None
    THEN [section |-> section, words |-> wc, confidence |-> cf]
    ELSE [section |-> section, words |-> ERROR, confidence |-> IntVal(0)]

\* Faulty variant: the row is built without the test for None.
RowFor_Unchecked(section, wc, cf) ==
    [section |-> section, words |-> wc,
     confidence |-> IF Truthy(cf) THEN cf ELSE IntVal(0)]

\* Faulty variant: the error row keeps the parsed confidence.
RowFor_KeepConfidence(section, wc, cf) ==
    [section |-> section, words |-> IF wc # None THEN wc ELSE ERROR,
     confidence |-> IF Truthy(cf) THEN cf ELSE IntVal(0)]

RowFor(section, wc, cf) ==
    IF wc # None
    THEN [section |-> section, words |-> wc,
          confidence |-> IF Truthy(cf) THEN cf ELSE IntVal(0)]
    ELSE [section |-> section, words |-> ERROR, confidence |-> IntVal(0)]

\* Faulty variant: a row without a count is not kept.
AppendRow_SkipErrors(rs, r) == IF r.words = ERROR THEN rs ELSE Append(rs, r)

\* results.append(...) (lines 108, 116)
AppendRow(rs, r) == Append(rs, r)

(***************************************************************************)
(* get_dc_files and the section number (lines 10-14, 96).                  *)
(***************************************************************************)
\* dc_path.glob("dc*.md")
Glob(name) ==
    /\ Len(name) >= 3
    /\ name[1] = "d" /\ name[2] = "c"
    /\ name[Len(name)] = ".md"

\* Path.stem
Stem(name) == SubSeq(name, 1, Len(name) - 1)

\* str order, by code point
RECURSIVE Less(_, _)
Less(a, b) ==
    IF Len(a) = 0 THEN Len(b) > 0
    ELSE IF Len(b) = 0 THEN FALSE
    ELSE IF Head(a) # Head(b) THEN CodePoint[Head(a)] < CodePoint[Head(b)]
    ELSE Less(Tail(a), Tail(b))

\* sorted(...)
RECURSIVE Sorted(_)
Sorted(S) ==
    IF S = {} THEN <<>>
    ELSE LET m == CHOOSE x \in S : \A y \in S \ {x} : Less(x, y)
         IN  <<m>> \o Sorted(S \ {m})

get_dc_files(dir) == Sorted({f \in dir : Glob(f)})

\* stem.replace('dc', '')
RECURSIVE ReplaceDc(_)
ReplaceDc(s) ==
    IF Len(s) = 0 THEN <<>>
    ELSE IF Len(s) >= 2 /\ s[1] = "d" /\ s[2] = "c"
         THEN ReplaceDc(SubSeq(s, 3, Len(s)))
         ELSE <<Head(s)>> \o ReplaceDc(Tail(s))

\* int(file_path.stem.replace('dc', '')), None standing for ValueError
SectionOf(name) == PyInt(ReplaceDc(Stem(name)))

\* Faulty variant: the loop stops one file early.
LoopDone_Early(i, files) == i >= Len(files)

\* The for loop has run out of files (line 94).
LoopDone(i, files) == i > Len(files)

(***************************************************************************)
(* Inputs of a run.                                                        *)
(***************************************************************************)
DirNames ==
    { <<"d", "c", "0", "0", "1", ".md">>,
      <<"d", "c", "0", "0", "4", ".md">>,
      <<"d", "c", "1", "0", ".md">>,
      <<"d", "c", "2", ".md">>,
      <<"d", "c", "x", ".md">>,
      <<"r", ".md">> }

Directories == {d \in SUBSET DirNames : Cardinality(d) <= MaxFiles}

SampleLines ==
    { <<"WORD_COUNT:", " ", "1", "2">>,
      <<"WORD_COUNT:", " ", "-", "5">>,
      <<" ", "WORD_COUNT:", " ", "0">>,
      <<"CONFIDENCE:", " ", "9", "0", " ">>,
      <<"CONFIDENCE:", " ", "1", "5", "0">>,
      <<"CONFIDENCE:", " ", "9", "5", "%">> }

RECURSIVE Join(_)
Join(lines) ==
    IF Len(lines) = 0 THEN <<>>
    ELSE IF Len(lines) = 1 THEN lines[1]
    ELSE lines[1] \o <<"\n">> \o Join(Tail(lines))

\* Reply texts of the remote service.
Contents ==
    {Join(ls) : ls \in SeqsUpTo(SampleLines, MaxReplyLines)}

NoFile == [present |-> FALSE, header |-> FALSE, rows |-> <<>>]

Report(rs) == [present |-> TRUE, header |-> TRUE, rows |-> rs]

PriorReport ==
    Report(<<[section |-> 1, words |-> IntVal(12), confidence |-> IntVal(90)]>>)

NoResponse == [kind |-> "none", content |-> <<>>]

(***************************************************************************)
(* The parsing loop on its own starts idle in a run of main().             *)
(***************************************************************************)
NoRow == [section |-> 0, words |-> None, confidence |-> None]

ParseIdle ==
    /\ ppc = "idle" /\ nlines = 0 /\ textEnd = "start" /\ track = "none"
    /\ target = 0 /\ nLabel = 0 /\ lastVal = None /\ sawTarget = FALSE
    /\ targetStands = FALSE /\ row = NoRow

Init ==
    /\ directory \in Directories
    /\ prior \in {NoFile, PriorReport}
    /\ output = prior
    /\ pc = "start"
    /\ dc_files = <<>>
    /\ idx = 0
    /\ section_num = 0
    /\ response = NoResponse
    /\ word_count = None
    /\ confidence = None
    /\ results = <<>>
    /\ requests = <<>>
    /\ ParseIdle

(***************************************************************************)
(* main()                                                                  *)
(***************************************************************************)
\* Lines 87-91.
GetDcFiles ==
    /\ pc = "start"
    /\ dc_files' = get_dc_files(directory)
    /\ requests' = [i \in 1..Len(dc_files') |-> 0]
    /\ results' = <<>>
    /\ idx' = 1
    /\ pc' = "for"
    /\ UNCHANGED <<directory, prior, output, section_num, response,
                   word_count, confidence>>
    /\ UNCHANGED parseVars

\* Lines 94-96: the next file; its section number, or ValueError.
SectionNum ==
    /\ pc = "for"
    /\ ~LoopDone(idx, dc_files)
    /\ IF SectionOf(dc_files[idx]) # None
       THEN /\ section_num' = SectionOf(dc_files[idx]).n
            /\ pc' = "open"
       ELSE /\ section_num' = section_num
            /\ pc' = "aborted"
    /\ UNCHANGED <<directory, prior, output, dc_files, idx, response,
                   word_count, confidence, results, requests>>
    /\ UNCHANGED parseVars

\* Lines 101-102: the file is read.
ReadContent ==
    /\ pc = "open"
    /\ pc' = "call"
    /\ UNCHANGED <<directory, prior, output, dc_files, idx, section_num,
                   response, word_count, confidence, results, requests>>
    /\ UNCHANGED parseVars

\* Lines 101-102: open() or read() raises (OSError, UnicodeDecodeError).
ReadRaises ==
    /\ pc = "open"
    /\ pc' = "aborted"
    /\ UNCHANGED <<directory, prior, output, dc_files, idx, section_num,
                   response, word_count, confidence, results, requests>>
    /\ UNCHANGED parseVars

\* Lines 105, 48: the request is sent.
Request ==
    /\ pc = "call"
    /\ requests' = [requests EXCEPT ![idx] = @ + 1]
    /\ response' = NoResponse
    /\ pc' = "requested"
    /\ UNCHANGED <<directory, prior, output, dc_files, idx, section_num,
                   word_count, confidence, results>>
    /\ UNCHANGED parseVars

\* Lines 48-56, 78-80: the call raises an Exception.
RemoteRaises ==
    /\ pc = "requested"
    /\ response' = [kind |-> "raised", content |-> <<>>]
    /\ word_count' = OnException[1]
    /\ confidence' = OnException[2]
    /\ pc' = AfterException
    /\ UNCHANGED <<directory, prior, output, dc_files, idx, section_num,
                   results, requests>>
    /\ UNCHANGED parseVars

\* Lines 58, 78-80: the reply carries no text (content is None, or there is
\* no choice): the attribute access raises inside the try block.
RemoteReturnsNoText ==
    /\ pc = "requested"
    /\ response' = [kind |-> "notext", content |-> <<>>]
    /\ word_count' = OnException[1]
    /\ confidence' = OnException[2]
    /\ pc' = AfterException
    /\ UNCHANGED <<directory, prior, output, dc_files, idx, section_num,
                   results, requests>>
    /\ UNCHANGED parseVars

\* Lines 58-76: the reply carries text, which is parsed.
RemoteReturns ==
    /\ pc = "requested"
    /\ \E content \in Contents :
        /\ response' = [kind |-> "text", content |-> content]
        /\ word_count' = ParseReply(content)[1]
        /\ confidence' = ParseReply(content)[2]
    /\ pc' = "returned"
    /\ UNCHANGED <<directory, prior, output, dc_files, idx, section_num,
                   results, requests>>
    /\ UNCHANGED parseVars

\* Lines 107-120.
RecordRow ==
    /\ pc = "returned"
    /\ results' = AppendRow(results, RowFor(section_num, word_count, confidence))
    /\ pc' = "recorded"
    /\ UNCHANGED <<directory, prior, output, dc_files, idx, section_num,
                   response, word_count, confidence, requests>>
    /\ UNCHANGED parseVars

\* Lines 123-124, 94: the pause, then the loop advances.
Sleep ==
    /\ pc = "recorded"
    /\ idx' = idx + 1
    /\ response' = NoResponse
    /\ pc' = "for"
    /\ UNCHANGED <<directory, prior, output, dc_files, section_num,
                   word_count, confidence, results, requests>>
    /\ UNCHANGED parseVars

\* Lines 127-131: the report is written.
WriteReport ==
    /\ pc = "for"
    /\ LoopDone(idx, dc_files)
    /\ output' = Report(results)
    /\ pc' = "done"
    /\ UNCHANGED <<directory, prior, dc_files, idx, section_num, response,
                   word_count, confidence, results, requests>>
    /\ UNCHANGED parseVars

\* Lines 127-131: open() raises (the file is as it was), or a write raises
\* after open() has truncated the file.
WriteRaises ==
    /\ pc = "for"
    /\ LoopDone(idx, dc_files)
    /\ \/ output' = output
       \/ output' = [present |-> TRUE, header |-> FALSE, rows |-> <<>>]
       \/ \E n \in 0..Len(results) : output' = Report(SubSeq(results, 1, n))
    /\ pc' = "aborted"
    /\ UNCHANGED <<directory, prior, dc_files, idx, section_num, response,
                   word_count, confidence, results, requests>>
    /\ UNCHANGED parseVars

\* The process is terminated from outside while documents are processed.
Terminate ==
    /\ pc \in {"for", "open", "call", "requested", "returned", "recorded"}
    /\ pc' = "killed"
    /\ UNCHANGED <<directory, prior, output, dc_files, idx, section_num,
                   response, word_count, confidence, results, requests>>
    /\ UNCHANGED parseVars

Next ==
    \/ GetDcFiles
    \/ SectionNum
    \/ ReadContent
    \/ ReadRaises
    \/ Request
    \/ RemoteRaises
    \/ RemoteReturnsNoText
    \/ RemoteReturns
    \/ RecordRow
    \/ Sleep
    \/ WriteReport
    \/ WriteRaises
    \/ Terminate

Spec == Init /\ [][Next]_vars

(***************************************************************************)
(* The parsing of one reply, line by line (lines 61-76), then the row      *)
(* main() builds from the returned pair (lines 107-120).  The lines are    *)
(* those of response_text, drawn from every token sequence of at most      *)
(* MaxLineLen tokens.                                                      *)
(***************************************************************************)
Alphabet == {"WORD_COUNT:", "CONFIDENCE:", ":", " ", "7", "-", "%"}

Lines == SeqsUpTo(Alphabet, MaxLineLen)

\* The integer of a line "<label> <int>" (blanks around the integer are
\* optional), None when the line is not of that form.
WellFormedInt(line, label) ==
    IF Len(line) = 0 \/ Head(line) # label THEN None
    ELSE LET t == Strip(Tail(line))
             neg == Len(t) > 0 /\ Head(t) = "-"
             digits == IF neg THEN Tail(t) ELSE t
         IN  IF Len(digits) = 0 \/ \E i \in 1..Len(digits) : ~IsDigit(digits[i])
             THEN None
             ELSE IntVal((IF neg THEN -1 ELSE 1) * DecVal(digits))

Targets == {7, 77}

\* response_text is a result of strip(): it is empty, or it neither starts
\* nor ends with whitespace.
MayStart(line) == IF Len(line) = 0 THEN TRUE ELSE Head(line) \notin Whitespace

EndAfter(n, line) ==
    IF Len(line) = 0 THEN (IF n = 0 THEN "empty" ELSE "open")
    ELSE IF line[Len(line)] \in Whitespace THEN "open" ELSE "clean"

ParseInit ==
    /\ directory = {}
    /\ prior = NoFile
    /\ output = NoFile
    /\ pc = "parse"
    /\ dc_files = <<>>
    /\ idx = 0
    /\ section_num = 1
    /\ response = NoResponse
    /\ results = <<>>
    /\ requests = <<>>
    /\ word_count = None
    /\ confidence = None
    /\ ppc = "loop"
    /\ nlines = 0
    /\ textEnd = "start"
    /\ track \in Labels
    /\ target \in Targets
    /\ nLabel = 0
    /\ lastVal = None
    /\ sawTarget = FALSE
    /\ targetStands = FALSE
    /\ row = NoRow

\* Lines 64-74: one iteration of the loop.
ParseLine ==
    /\ ppc = "loop"
    /\ nlines < MaxLines
    /\ textEnd # "empty"
    /\ \E line \in Lines :
        /\ nlines = 0 => MayStart(line)
        /\ word_count' = ParseLineWC(word_count, line)
        /\ confidence' = ParseLineCF(confidence, line)
        /\ textEnd' = EndAfter(nlines, line)
        /\ nLabel' = IF Contains(line, track) /\ nLabel < 2
                     THEN nLabel + 1 ELSE nLabel
        /\ lastVal' = IF Contains(line, track) THEN FieldInt(line) ELSE lastVal
        /\ LET isTarget == WellFormedInt(line, track) = IntVal(target)
           IN  /\ sawTarget' = (sawTarget \/ isTarget)
               /\ targetStands' =
                    IF isTarget THEN TRUE
                    ELSE IF /\ Contains(line, track)
                            /\ FieldInt(line) \notin {None, IntVal(target)}
                         THEN FALSE
                         ELSE targetStands
    /\ nlines' = nlines + 1
    /\ UNCHANGED <<ppc, track, target, row>>
    /\ UNCHANGED mainVars

\* Line 76.
ParseReturn ==
    /\ ppc = "loop"
    /\ textEnd \in {"empty", "clean"}
    /\ ppc' = "returned"
    /\ UNCHANGED <<word_count, confidence, nlines, textEnd, track, target,
                   nLabel, lastVal, sawTarget, targetStands, row>>
    /\ UNCHANGED mainVars

\* Lines 107-120.
ParseRecord ==
    /\ ppc = "returned"
    /\ row' = RowFor(section_num, word_count, confidence)
    /\ ppc' = "recorded"
    /\ UNCHANGED <<word_count, confidence, nlines, textEnd, track, target,
                   nLabel, lastVal, sawTarget, targetStands>>
    /\ UNCHANGED mainVars

ParseNext ==
    \/ ParseLine
    \/ ParseReturn
    \/ ParseRecord

ParseSpec == ParseInit /\ [][ParseNext]_vars

(***************************************************************************)
(* Claims about a run of main(), checked under Spec.                       *)
(***************************************************************************)
LastRow == results[Len(results)]

ErrorRow(section) ==
    [section |-> section, words |-> ERROR, confidence |-> IntVal(0)]

\* C1: the results, and the report once written, hold exactly one row per
\* file returned by get_dc_files(), in the order of enumeration, each with
\* the section number of its file: nothing is skipped, nothing is repeated.
C1_OneRowPerDocument ==
    /\ Len(results) <= Len(dc_files)
    /\ \A k \in 1..Len(results) :
          IntVal(results[k].section) = SectionOf(dc_files[k])
    /\ pc \in {"for", "open", "call", "requested", "returned"}
          => Len(results) = idx - 1
    /\ pc = "recorded" => Len(results) = idx
    /\ pc = "done" =>
          /\ output = Report(results)
          /\ Len(output.rows) = Len(dc_files)
          /\ Len(dc_files) = Cardinality({f \in directory : Glob(f)})
          /\ \A i, j \in 1..Len(dc_files) :
                i < j => Less(dc_files[i], dc_files[j])

\* C1 witness: a report of two rows, the first an error row and the second a
\* count, in the order of the file names (dc10.md before dc2.md).
C1_Witness ==
    /\ pc = "done"
    /\ Len(output.rows) = 2
    /\ output.rows[1].section = 10 /\ output.rows[1].words = ERROR
    /\ output.rows[2].section = 2 /\ output.rows[2].words = IntVal(12)

\* C2: when the remote call raised, the row recorded for the document is
\* ('ERROR', 0).
C2_RaiseGivesErrorRow ==
    (pc = "recorded" /\ response.kind = "raised")
        => LastRow = ErrorRow(section_num)

\* C2 witness: the call for the second document raised and its row is there.
C2_Witness ==
    /\ pc = "recorded"
    /\ response.kind = "raised"
    /\ Len(results) = 2
    /\ LastRow.words = ERROR

\* C3: no failure on a document aborts the run: a run is only ever aborted
\* by the write of the report, after every document has been recorded.
C3_OnlyTheWriteAborts ==
    pc = "aborted" => (LoopDone(idx, dc_files) /\ Len(results) = Len(dc_files))

\* The lines of a reply as the service sent it.
ReplyLines == SplitOn(response.content, "\n")

\* No line of the reply carries a confidence that parses.
NoParsedConfidence ==
    \A i \in 1..Len(ReplyLines) :
        Contains(ReplyLines[i], "CONFIDENCE:") => FieldInt(ReplyLines[i]) = None

\* C6: a reply that yields a word count and has no confidence line, or only
\* confidence lines that do not parse, is recorded with confidence 0.
C6_MissingConfidenceIsZero ==
    (/\ pc = "recorded"
     /\ response.kind = "text"
     /\ word_count # None
     /\ NoParsedConfidence)
        => (LastRow.words = word_count /\ LastRow.confidence = IntVal(0))

\* C6 witness: a count of 12 next to a confidence line that does not parse.
C6_Witness ==
    /\ pc = "recorded"
    /\ response.kind = "text"
    /\ NoParsedConfidence
    /\ \E i \in 1..Len(ReplyLines) : Contains(ReplyLines[i], "CONFIDENCE:")
    /\ word_count = IntVal(12)
    /\ LastRow.confidence = IntVal(0)

AllRows == {results[k] : k \in 1..Len(results)}
               \cup {output.rows[k] : k \in 1..Len(output.rows)}

\* C7 as stated: every row has words a non-negative integer or 'ERROR' and
\* confidence an integer in 0..100.
C7_RowsInRange ==
    \A r \in AllRows :
        /\ r.words = ERROR \/ (r.words.kind = "int" /\ r.words.n >= 0)
        /\ r.confidence.kind = "int"
        /\ r.confidence.n >= 0 /\ r.confidence.n <= 100

\* C7 as amended: every row has words an integer or 'ERROR', never None, and
\* confidence an integer, never None; a parsed count is recorded as parsed,
\* and so is a parsed confidence other than 0.
C7_RowsTyped ==
    /\ \A r \in AllRows :
          /\ r.words = ERROR \/ r.words.kind = "int"
          /\ r.confidence.kind = "int"
    /\ (pc = "recorded" /\ word_count # None) =>
          /\ LastRow.words = word_count
          /\ confidence # None => LastRow.confidence = confidence

\* C7 witness: a reply with a negative count and a confidence above 100 is
\* recorded as it came.
C7_Witness ==
    /\ pc = "recorded"
    /\ LastRow.words = IntVal(-5)
    /\ LastRow.confidence = IntVal(150)

\* The place of document k on the path Pending, Requested, Succeeded or
\* Failed, Recorded.
Status(k) ==
    IF k < idx \/ (k = idx /\ pc = "recorded") THEN "Recorded"
    ELSE IF k = idx /\ pc = "requested" THEN "Requested"
    ELSE IF k = idx /\ pc = "returned"
         THEN (IF word_count # None THEN "Succeeded" ELSE "Failed")
    ELSE "Pending"

Rank(st) ==
    CASE st = "Pending" -> 0
      [] st = "Requested" -> 1
      [] st \in {"Succeeded", "Failed"} -> 2
      [] st = "Recorded" -> 3

\* C8, the requests: at most one per document, issued before the document is
\* recorded and after the previous document was.
C8_Requests ==
    \A k \in 1..Len(requests) :
        /\ requests[k] <= 1
        /\ Rank(Status(k)) >= 1 => requests[k] = 1
        /\ Len(results) >= k => requests[k] = 1
        /\ Status(k) \in {"Requested", "Succeeded", "Failed"}
              => Len(results) = k - 1
        /\ requests[k] = 1 => Len(results) >= k - 1

\* C8, the steps: a document moves one place along the path or stays, and a
\* request is issued only for a Pending document, which becomes Requested.
C8_Step ==
    pc' \notin {"killed", "aborted"} =>
        \A k \in 1..Len(requests) :
            /\ Rank(Status(k)') \in {Rank(Status(k)), Rank(Status(k)) + 1}
            /\ requests'[k] # requests[k] =>
                  (Status(k) = "Pending" /\ Status(k)' = "Requested")

\* C8: each document goes Pending, Requested, Succeeded or Failed, Recorded,
\* one step at a time and never back; at most one request is issued per
\* document; a document is recorded only once its request has returned or
\* raised; the request for the next document is issued only after the
\* previous document has been recorded.
C8_DocumentPath == []C8_Requests /\ [][C8_Step]_vars

\* C8 witness: a finished run over two documents, the first of which failed:
\* one request each.
C8_Witness ==
    /\ pc = "done"
    /\ requests = <<1, 1>>
    /\ results[1].words = ERROR
    /\ results[2].words # ERROR

\* C9: until every document has been recorded the output file is as it was
\* before the run; a run stopped while documents are processed leaves it so.
C9_NoWriteBeforeTheEnd ==
    /\ pc \notin {"done", "aborted"} => output = prior
    /\ output # prior => Len(results) = Len(dc_files)

\* C9 witness: the run is terminated with one of two documents recorded; the
\* earlier report is still the file.
C9_Witness ==
    /\ pc = "killed"
    /\ Len(dc_files) = 2
    /\ Len(results) = 1
    /\ prior = PriorReport
    /\ output = prior

\* C10: a document without a word count is recorded as ('ERROR', 0) whatever
\* confidence was parsed, so a row with words 'ERROR' has confidence 0.
C10_ErrorRowHasZeroConfidence ==
    /\ \A r \in AllRows : r.words = ERROR => r.confidence = IntVal(0)
    /\ (pc = "recorded" /\ word_count = None)
          => LastRow = ErrorRow(section_num)

\* C10 witness: the reply gave a confidence of 90 and no count.
C10_Witness ==
    /\ pc = "recorded"
    /\ word_count = None
    /\ confidence = IntVal(90)
    /\ LastRow = ErrorRow(section_num)

(***************************************************************************)
(* Claims about the parsing of a reply, checked under ParseSpec.           *)
(***************************************************************************)
\* The value the loop holds for the tracked label.
Tracked == IF track = "WORD_COUNT:" THEN word_count ELSE confidence

\* C4 as stated: a reply with a well-formed line "WORD_COUNT: n" gives
\* word_count n, and n is the words of the row.
C4_WellFormedLineDecides ==
    (ppc = "recorded" /\ track = "WORD_COUNT:" /\ sawTarget)
        => (word_count = IntVal(target) /\ row.words = IntVal(target))

\* C4 as amended: a reply with a well-formed line "WORD_COUNT: n", after
\* which no line with the label carries a value that parses to another
\* integer, gives word_count n, and n is the words of the row.
C4_StandingWellFormedLineDecides ==
    (ppc = "recorded" /\ track = "WORD_COUNT:" /\ targetStands)
        => (word_count = IntVal(target) /\ row.words = IntVal(target))

\* C4 witness: the well-formed line of 7 is followed by a line with the
\* label whose value does not parse; the row says 7.
C4_Witness ==
    /\ ppc = "recorded"
    /\ track = "WORD_COUNT:"
    /\ target = 7
    /\ targetStands
    /\ nLabel = 2
    /\ lastVal = None
    /\ row.words = IntVal(7)

\* C5 as stated: the first line with the label decides the value (its
\* integer, or None when it does not parse), and later lines never change it.
C5_FirstLabelLineDecides ==
    [][ (ppc = "loop" /\ nlines' = nlines + 1) =>
            /\ (nLabel = 0 /\ nLabel' = 1) => Tracked' = lastVal'
            /\ nLabel >= 1 => Tracked' = Tracked ]_vars

\* C5 as amended, the value held at any time.
C5_Value ==
    /\ nLabel = 0 => Tracked = None
    /\ (nLabel = 1 /\ lastVal = None) => Tracked = None
    /\ lastVal # None => Tracked = lastVal

\* C5 as amended, the effect of one line.
C5_Step ==
    (ppc = "loop" /\ nlines' = nlines + 1) =>
        Tracked' = IF lastVal' # None THEN lastVal' ELSE Tracked

\* C5 as amended: the latest line with the label whose value parses decides:
\* a line with the label whose value parses replaces the value, one whose
\* value does not parse leaves it as it was, and the value is None only when
\* no line with the label has parsed.
C5_LatestParsedLineDecides == []C5_Value /\ [][C5_Step]_vars

\* C5 witness: after the well-formed line of 7, a second line with the label
\* parsed to another integer, which is the value returned.
C5_Witness ==
    /\ ppc = "returned"
    /\ target = 7
    /\ sawTarget /\ ~targetStands
    /\ nLabel = 2
    /\ lastVal # None
    /\ Tracked = lastVal
    /\ Tracked # IntVal(7)

====
